---- MODULE Spec2Model ----
(***************************************************************************)
(* wincpp: the WindowClass and Window wrappers over the platform windowing *)
(* interface.  The wrappers keep three disjoint pieces of state, each with *)
(* the part of the platform it talks to, and each has its own              *)
(* specification:                                                          *)
(*   SpecClass   WindowClass objects, the class-name strings, the          *)
(*               platform's table of registered classes                    *)
(*   SpecWindow  one Window, its platform window, the thread's message     *)
(*               queue and RunDefaultMessageLoop                           *)
(*   SpecClip    CopyToClipboard / PasteFromClipboard and the platform     *)
(*               clipboard                                                 *)
(***************************************************************************)
EXTENDS Integers, Sequences, FiniteSets, TLC

VARIABLES
    \* ---- WindowClass (WindowClass.hpp) ----
    life,           \* object slot -> "none" | "live" | "dead"
    m_NativeClass,  \* object slot -> the WNDCLASS record the object holds
    heapText,       \* string address -> the text stored there
    frees,          \* string address -> number of free() calls made on it
    dups,           \* number of strings _wcsdup has allocated so far
    registry,       \* platform: the registered <<class name, hInstance>> keys
    classWindows,   \* platform: the keys that have a window at the moment
    regBy,          \* object slot -> it holds a registration made through it
    cret,           \* the last WindowClass call: what it returned and released
    \* ---- Window (Window.hpp) and the sandbox program (main.cpp) ----
    wpc,            \* "start" | "ready" | "loop" | "gone" | "failed"
    m_NativeWindow, \* the handle the Window stores
    hCreated,       \* the handle CreateWindowEx returned to the constructor
    alive,          \* platform: the window hCreated names exists
    show,           \* platform: "hidden" | "normal" | "max" | "min"
    title,          \* platform: the window text
    timers,         \* platform: the timer ids set on the window
    invalid,        \* platform: the window has an invalid (unpainted) region
    queue,          \* platform: the thread's posted messages, oldest first
    msg,            \* RunDefaultMessageLoop's MSG
    destroyLog,     \* every DestroyWindow(hCreated): <<caller, window existed>>
    wret,           \* the last Window call or loop iteration
    \* ---- the clipboard operations of Window (Window.hpp) ----
    clipOpen,       \* platform: who has the clipboard open: "none" | "self" | "other"
    clipData,       \* platform: the CF_UNICODETEXT block on the clipboard, if any
    kret            \* the last clipboard call

classVars ==
    <<life, m_NativeClass, heapText, frees, dups, registry, classWindows,
      regBy, cret>>

winVars ==
    <<wpc, m_NativeWindow, hCreated, alive, show, title, timers, invalid,
      queue, msg, destroyLog, wret>>

clipVars == <<clipOpen, clipData, kret>>

vars == <<classVars, winVars, clipVars>>

(***************************************************************************)
(* Bounds of the model                                                     *)
(***************************************************************************)
NObj == 2       \* WindowClass objects the program creates
NCaller == 1    \* distinct class-name strings the caller owns
MaxDup == 2     \* strings _wcsdup may allocate
MaxQueue == 2   \* posted messages waiting in the thread's queue
MaxLen == 2     \* characters in a text handed to CopyToClipboard

(***************************************************************************)
(* Values                                                                  *)
(***************************************************************************)
NULL == 0
COLOR_WINDOW == 5
CS_VREDRAW == 1
CS_HREDRAW == 2
IDC_ARROW == 32512
IDI_APPLICATION == 32512

Objs == 1..NObj
CallerPtrs == 1..NCaller                      \* strings the caller passes in
DupPtrs == (NCaller + 1)..(NCaller + MaxDup)   \* strings _wcsdup returns
Ptrs == CallerPtrs \cup DupPtrs
Procs == {1}                                  \* window procedures (WindowProc of main.cpp)
Insts == {1}                                  \* instance handles
Brushes == {COLOR_WINDOW + 1}                 \* background brushes

RECURSIVE Xor(_, _)
Xor(a, b) ==
    IF a = 0 THEN b
    ELSE IF b = 0 THEN a
    ELSE (((a % 2) + (b % 2)) % 2) + 2 * Xor(a \div 2, b \div 2)

\* std::hash<void*>: a deterministic function of the pointer value.
Hash(p) == p

\* The text "Class" followed by the hash of the three identities.
AutoName(procedure, hInstance, background) ==
    <<"Class", Xor(Xor(Hash(procedure), Hash(hInstance)), Hash(background))>>

\* The text a caller-owned string holds.
CallerName(p) == <<"App", p>>

Garbage == <<"?", 0>>

\* What a null class-name pointer names: no text at all.
NoName == <<"", 0>>

ZeroClass ==
    [lpfnWndProc |-> NULL, hInstance |-> NULL, hbrBackground |-> NULL,
     lpszClassName |-> NULL, style |-> 0, hCursor |-> NULL, hIcon |-> NULL]

Initialize(procedure, hInstance, background, className) ==
    [lpfnWndProc |-> procedure, hInstance |-> hInstance,
     hbrBackground |-> background, lpszClassName |-> className,
     style |-> CS_HREDRAW + CS_VREDRAW, hCursor |-> IDC_ARROW,
     hIcon |-> IDI_APPLICATION]

(***************************************************************************)
(* The platform's class table                                              *)
(***************************************************************************)
\* What the platform reads at a class-name pointer: the text stored there,
\* or, once the string was freed, whatever the memory holds by then.
ReadName(p) ==
    IF p = NULL THEN {NoName}
    ELSE IF frees[p] = 0 THEN {heapText[p]}
    ELSE {heapText[p], Garbage}

Key(name, hInstance) == <<name, hInstance>>

\* RegisterClass: fails on a null name and on a key already in the table.
RegisterClassOk(reg, name, hInstance) ==
    name # NoName /\ Key(name, hInstance) \notin reg

RegisterClassW(reg, name, hInstance) ==
    IF RegisterClassOk(reg, name, hInstance)
    THEN reg \cup {Key(name, hInstance)}
    ELSE reg

\* UnregisterClass: removes the key unless it is absent or still has a window.
UnregisterClassW(reg, wins, name, hInstance) ==
    IF Key(name, hInstance) \in reg /\ Key(name, hInstance) \notin wins
    THEN reg \ {Key(name, hInstance)}
    ELSE reg

(***************************************************************************)
(* WindowClass                                                             *)
(***************************************************************************)
Ret(op, obj, result, name, released) ==
    [op |-> op, obj |-> obj, result |-> result, name |-> name,
     ptr |-> IF obj \in Objs THEN m_NativeClass[obj].lpszClassName ELSE NULL,
     released |-> released]

\* What a call gives back: "true" / "false", "void", a thrown exception.
Bool(b) == IF b THEN "true" ELSE "false"

\* Unregister(): acts only on a non-null name.
UnregisterReg(nc, name) ==
    IF nc.lpszClassName # NULL
    THEN UnregisterClassW(registry, classWindows, name, nc.hInstance)
    ELSE registry

UnregisterLog(nc, name) ==
    IF nc.lpszClassName # NULL
    THEN <<<<"UnregisterClass", name, nc.hInstance>>>>
    ELSE <<>>

\* if (lpszClassName) free(lpszClassName): the call is counted whatever the
\* pointer names; what free() then does to a string that malloc never gave
\* out, or gave out and already took back, is not modelled further.
FreeName(nc) ==
    IF nc.lpszClassName # NULL
    THEN [frees EXCEPT ![nc.lpszClassName] = @ + 1]
    ELSE frees

FreeLog(nc) ==
    IF nc.lpszClassName # NULL THEN <<<<"free", nc.lpszClassName>>>> ELSE <<>>

ConstructDefault(o) ==
    /\ life[o] = "none"
    /\ life' = [life EXCEPT ![o] = "live"]
    /\ m_NativeClass' = [m_NativeClass EXCEPT ![o] = ZeroClass]
    /\ cret' = Ret("WindowClass()", o, "void", NoName, <<>>)
    /\ UNCHANGED <<heapText, frees, dups, registry, classWindows, regBy>>
    /\ UNCHANGED <<winVars, clipVars>>

ConstructNamed(o, procedure, hInstance, background, className) ==
    /\ life[o] = "none"
    /\ life' = [life EXCEPT ![o] = "live"]
    /\ m_NativeClass' = [m_NativeClass EXCEPT ![o] =
            Initialize(procedure, hInstance, background, className)]
    /\ cret' = Ret("WindowClass(className)", o, "void", NoName, <<>>)
    /\ UNCHANGED <<heapText, frees, dups, registry, classWindows, regBy>>
    /\ UNCHANGED <<winVars, clipVars>>

ConstructNamedNoBrush(o, procedure, hInstance, className) ==
    ConstructNamed(o, procedure, hInstance, COLOR_WINDOW + 1, className)

\* _wcsdup returns a fresh string, or null when memory is exhausted and the
\* constructor throws std::bad_alloc: no object comes to exist.
ConstructAuto(o, procedure, hInstance, background, allocOk) ==
    /\ life[o] = "none"
    /\ IF allocOk /\ dups < MaxDup
       THEN LET className == NCaller + dups + 1 IN
            /\ dups' = dups + 1
            /\ heapText' = [heapText EXCEPT ![className] =
                    AutoName(procedure, hInstance, background)]
            /\ life' = [life EXCEPT ![o] = "live"]
            /\ m_NativeClass' = [m_NativeClass EXCEPT ![o] =
                    Initialize(procedure, hInstance, background, className)]
            /\ cret' = Ret("WindowClass(auto)", o, "void", NoName, <<>>)
       ELSE /\ life' = [life EXCEPT ![o] = "dead"]
            /\ cret' = Ret("WindowClass(auto)", o, "bad_alloc", NoName, <<>>)
            /\ UNCHANGED <<dups, heapText, m_NativeClass>>
    /\ UNCHANGED <<frees, registry, classWindows, regBy>>
    /\ UNCHANGED <<winVars, clipVars>>

Destructor(o) ==
    /\ life[o] = "live"
    /\ \E name \in ReadName(m_NativeClass[o].lpszClassName) :
        /\ registry' = UnregisterReg(m_NativeClass[o], name)
        /\ frees' = FreeName(m_NativeClass[o])
        /\ cret' = Ret("~WindowClass", o, "void", name,
                       UnregisterLog(m_NativeClass[o], name)
                           \o FreeLog(m_NativeClass[o]))
    /\ life' = [life EXCEPT ![o] = "dead"]
    /\ m_NativeClass' = [m_NativeClass EXCEPT ![o] = ZeroClass]
    /\ regBy' = [regBy EXCEPT ![o] = FALSE]
    /\ UNCHANGED <<heapText, dups, classWindows>>
    /\ UNCHANGED <<winVars, clipVars>>

MoveConstruct(o, other) ==
    /\ life[o] = "none" /\ life[other] = "live"
    /\ life' = [life EXCEPT ![o] = "live"]
    /\ m_NativeClass' = [m_NativeClass EXCEPT
            ![o] = m_NativeClass[other],
            ![other] = [m_NativeClass[other] EXCEPT !.lpszClassName = NULL]]
    /\ regBy' = [regBy EXCEPT ![o] = regBy[other], ![other] = FALSE]
    /\ cret' = Ret("WindowClass(&&)", o, "void", NoName, <<>>)
    /\ UNCHANGED <<heapText, frees, dups, registry, classWindows>>
    /\ UNCHANGED <<winVars, clipVars>>

MoveAssign(o, other) ==
    /\ life[o] = "live" /\ life[other] = "live"
    /\ IF o # other
       THEN \E name \in ReadName(m_NativeClass[o].lpszClassName) :
            /\ registry' = UnregisterReg(m_NativeClass[o], name)
            /\ frees' = FreeName(m_NativeClass[o])
            /\ m_NativeClass' = [m_NativeClass EXCEPT
                    ![o] = m_NativeClass[other],
                    ![other] = [m_NativeClass[other] EXCEPT
                                    !.lpszClassName = NULL]]
            /\ regBy' = [regBy EXCEPT ![o] = regBy[other], ![other] = FALSE]
            /\ cret' = Ret("operator=(&&)", o, "void", name,
                           UnregisterLog(m_NativeClass[o], name)
                               \o FreeLog(m_NativeClass[o]))
       ELSE /\ cret' = Ret("operator=(&&)", o, "void", NoName, <<>>)
            /\ UNCHANGED <<registry, frees, m_NativeClass, regBy>>
    /\ UNCHANGED <<life, heapText, dups, classWindows>>
    /\ UNCHANGED <<winVars, clipVars>>

\* Register() that gives up its class name when the platform refuses.
Register_DropsName(o) ==
    /\ life[o] = "live"
    /\ \E name \in ReadName(m_NativeClass[o].lpszClassName) :
        /\ registry' = RegisterClassW(registry, name, m_NativeClass[o].hInstance)
        /\ cret' = Ret("Register", o,
                       Bool(RegisterClassOk(registry, name,
                                            m_NativeClass[o].hInstance)),
                       name, <<>>)
        /\ regBy' = [regBy EXCEPT ![o] =
                @ \/ RegisterClassOk(registry, name, m_NativeClass[o].hInstance)]
        /\ m_NativeClass' =
                IF RegisterClassOk(registry, name, m_NativeClass[o].hInstance)
                THEN m_NativeClass
                ELSE [m_NativeClass EXCEPT ![o].lpszClassName = NULL]
    /\ UNCHANGED <<life, heapText, frees, dups, classWindows>>
    /\ UNCHANGED <<winVars, clipVars>>

Register(o) ==
    /\ life[o] = "live"
    /\ \E name \in ReadName(m_NativeClass[o].lpszClassName) :
        /\ registry' = RegisterClassW(registry, name, m_NativeClass[o].hInstance)
        /\ cret' = Ret("Register", o,
                       Bool(RegisterClassOk(registry, name,
                                            m_NativeClass[o].hInstance)),
                       name, <<>>)
        /\ regBy' = [regBy EXCEPT ![o] =
                @ \/ RegisterClassOk(registry, name, m_NativeClass[o].hInstance)]
    /\ UNCHANGED <<life, m_NativeClass, heapText, frees, dups, classWindows>>
    /\ UNCHANGED <<winVars, clipVars>>

Unregister(o) ==
    /\ life[o] = "live"
    /\ \E name \in ReadName(m_NativeClass[o].lpszClassName) :
        /\ registry' = UnregisterReg(m_NativeClass[o], name)
        /\ cret' = Ret("Unregister", o, "void", name,
                       UnregisterLog(m_NativeClass[o], name))
        /\ regBy' = [regBy EXCEPT ![o] =
                @ /\ Key(name, m_NativeClass[o].hInstance) \in registry']
    /\ UNCHANGED <<life, m_NativeClass, heapText, frees, dups, classWindows>>
    /\ UNCHANGED <<winVars, clipVars>>

GetClassName(o) == m_NativeClass[o].lpszClassName

\* A Window of a registered class is created (CreateWindowEx) or destroyed
\* (DestroyWindow) by the program: the class cannot be unregistered meanwhile.
ClassWindowCreated(k) ==
    /\ k \in registry /\ k \notin classWindows
    /\ classWindows' = classWindows \cup {k}
    /\ cret' = Ret("CreateWindowEx", NULL, "void", k[1], <<>>)
    /\ UNCHANGED <<life, m_NativeClass, heapText, frees, dups, registry, regBy>>
    /\ UNCHANGED <<winVars, clipVars>>

ClassWindowDestroyed(k) ==
    /\ k \in classWindows
    /\ classWindows' = classWindows \ {k}
    /\ cret' = Ret("DestroyWindow", NULL, "void", k[1], <<>>)
    /\ UNCHANGED <<life, m_NativeClass, heapText, frees, dups, registry, regBy>>
    /\ UNCHANGED <<winVars, clipVars>>

InitClass ==
    /\ life = [o \in Objs |-> "none"]
    /\ m_NativeClass = [o \in Objs |-> ZeroClass]
    /\ heapText = [p \in Ptrs |-> IF p \in CallerPtrs THEN CallerName(p) ELSE Garbage]
    /\ frees = [p \in Ptrs |-> 0]
    /\ dups = 0
    /\ registry = {}
    /\ classWindows = {}
    /\ regBy = [o \in Objs |-> FALSE]
    /\ cret = Ret("start", NULL, "void", NoName, <<>>)

NextClass ==
    \/ \E o \in Objs : ConstructDefault(o)
    \/ \E o \in Objs, p \in Procs, i \in Insts, b \in Brushes, c \in CallerPtrs :
            ConstructNamed(o, p, i, b, c)
    \/ \E o \in Objs, p \in Procs, i \in Insts, c \in CallerPtrs :
            ConstructNamedNoBrush(o, p, i, c)
    \/ \E o \in Objs, p \in Procs, i \in Insts, b \in Brushes, ok \in BOOLEAN :
            ConstructAuto(o, p, i, b, ok)
    \/ \E o \in Objs : Destructor(o)
    \/ \E o \in Objs, other \in Objs : MoveConstruct(o, other)
    \/ \E o \in Objs, other \in Objs : MoveAssign(o, other)
    \/ \E o \in Objs : Register(o)
    \/ \E o \in Objs : Unregister(o)
    \/ \E k \in registry : ClassWindowCreated(k)
    \/ \E k \in classWindows : ClassWindowDestroyed(k)

(***************************************************************************)
(* Window, the window procedure of main.cpp and the message queue          *)
(***************************************************************************)
HWNDs == {1, 2}                 \* handles CreateWindowEx may return
Titles == {"Hello", "Hey"}
TimerIds == {1}
ShowCmds == {"SW_SHOW", "SW_HIDE", "SW_MAXIMIZE", "SW_MINIMIZE", "SW_RESTORE"}
SysCommands == {"SC_CLOSE", "SC_MAXIMIZE"}
\* What the user and the system post to the window's thread.
Posted == {"WM_SIZE", "WM_KEYDOWN", "WM_CLOSE"}

WRet(op, result, handle, calls) ==
    [op |-> op, result |-> result, handle |-> handle, calls |-> calls]

\* ShowWindow(hwnd, cmd)
ShowState(cmd) ==
    CASE cmd = "SW_HIDE" -> "hidden"
      [] cmd = "SW_MAXIMIZE" -> "max"
      [] cmd = "SW_MINIMIZE" -> "min"
      [] OTHER -> "normal"

\* PostQuitMessage(0)
PostQuitMessage(q) == Append(q, "WM_QUIT")

\* DestroyWindow flushes the window's messages from the queue; WM_QUIT is the
\* thread's, not the window's.
RECURSIVE Flush(_)
Flush(q) ==
    IF q = <<>> THEN <<>>
    ELSE IF Head(q) = "WM_QUIT" THEN <<"WM_QUIT">> \o Flush(Tail(q))
    ELSE Flush(Tail(q))

\* The platform state is the record [alive, show, timers, invalid, queue,
\* destroyLog]; the window procedure and DestroyWindow map it to a new one.
Plat == [alive |-> alive, show |-> show, timers |-> timers,
         invalid |-> invalid, queue |-> queue, destroyLog |-> destroyLog]

\* WindowProc of main.cpp on WM_DESTROY: PostQuitMessage(0).
OnDestroy(ps) == [ps EXCEPT !.queue = PostQuitMessage(ps.queue)]

\* DestroyWindow(hwnd) called by `caller`: on a window that exists it sends
\* WM_DESTROY to the window procedure, flushes the window's messages, kills
\* its timers and ends the window; on a handle that names no window it fails.
DestroyWindow(ps, caller) ==
    IF ps.alive
    THEN [OnDestroy([ps EXCEPT !.queue = Flush(ps.queue)]) EXCEPT
              !.alive = FALSE, !.timers = {}, !.invalid = FALSE,
              !.destroyLog = Append(ps.destroyLog, <<caller, TRUE>>)]
    ELSE [ps EXCEPT !.destroyLog = Append(ps.destroyLog, <<caller, FALSE>>)]

\* DefWindowProc: WM_CLOSE destroys the window; SC_CLOSE sends WM_CLOSE.
DefWindowProc(ps, m) ==
    IF m \in {"WM_CLOSE", "SC_CLOSE"} THEN DestroyWindow(ps, "DefWindowProc")
    ELSE IF m = "SC_MAXIMIZE" THEN [ps EXCEPT !.show = "max"]
    ELSE ps

\* WindowProc of main.cpp.
WindowProc(ps, m) ==
    CASE m = "WM_PAINT" -> [ps EXCEPT !.invalid = FALSE]
      [] m = "WM_SIZE" -> [ps EXCEPT !.invalid = TRUE]
      [] m = "WM_DESTROY" -> OnDestroy(ps)
      [] OTHER -> DefWindowProc(ps, m)

\* SendMessage / DispatchMessage reach the procedure only of a window that
\* exists; WM_NULL of the zeroed MSG names no window.
Deliver(ps, m) ==
    IF ps.alive /\ m # "WM_NULL" THEN WindowProc(ps, m) ELSE ps

\* TranslateMessage posts the character message of a key press, to be read
\* by the next GetMessage.
TranslateMessage(ps, m) ==
    IF m = "WM_KEYDOWN" THEN [ps EXCEPT !.queue = <<"WM_CHAR">> \o ps.queue]
    ELSE ps

SetPlat(ps) ==
    /\ alive' = ps.alive
    /\ show' = ps.show
    /\ timers' = ps.timers
    /\ invalid' = ps.invalid
    /\ queue' = ps.queue
    /\ destroyLog' = ps.destroyLog

WinFrame == UNCHANGED <<classVars, clipVars>>

\* Window(windowClassName, windowName, hInstance): CreateWindowEx gives a handle,
\* or null and the constructor throws.
Construct(h, windowName) ==
    /\ wpc = "start"
    /\ m_NativeWindow' = h
    /\ hCreated' = h
    /\ IF h # NULL
       THEN /\ wpc' = "ready"
            /\ alive' = TRUE
            /\ title' = windowName
            /\ wret' = WRet("Window", "void", h, <<>>)
       ELSE /\ wpc' = "failed"
            /\ wret' = WRet("Window", "runtime_error", h, <<>>)
            /\ UNCHANGED <<alive, title>>
    /\ UNCHANGED <<show, timers, invalid, queue, msg, destroyLog>>
    /\ WinFrame

\* ~Window(): DestroyWindow on a non-null stored handle.
Destroy ==
    /\ wpc = "ready"
    /\ wpc' = "gone"
    /\ IF m_NativeWindow # NULL
       THEN SetPlat(DestroyWindow(Plat, "~Window"))
       ELSE UNCHANGED <<alive, show, timers, invalid, queue, destroyLog>>
    /\ wret' = WRet("~Window", "void", m_NativeWindow, <<>>)
    /\ UNCHANGED <<m_NativeWindow, hCreated, title, msg>>
    /\ WinFrame

\* Show(style), Hide(), Maximize(), Minimize(), Restore(): ShowWindow.
Show(cmd) ==
    /\ wpc = "ready"
    /\ show' = IF alive THEN ShowState(cmd) ELSE show
    /\ wret' = WRet("ShowWindow", "void", m_NativeWindow, <<>>)
    /\ UNCHANGED <<wpc, m_NativeWindow, hCreated, alive, title, timers, invalid,
                   queue, msg, destroyLog>>
    /\ WinFrame

SetTitle(t) ==
    /\ wpc = "ready"
    /\ title' = IF alive THEN t ELSE title
    /\ wret' = WRet("SetTitle", "void", m_NativeWindow, <<>>)
    /\ UNCHANGED <<wpc, m_NativeWindow, hCreated, alive, show, timers, invalid,
                   queue, msg, destroyLog>>
    /\ WinFrame

GetTitle ==
    /\ wpc = "ready"
    /\ wret' = WRet("GetTitle", IF alive THEN title ELSE "", m_NativeWindow, <<>>)
    /\ UNCHANGED <<wpc, m_NativeWindow, hCreated, alive, show, title, timers,
                   invalid, queue, msg, destroyLog>>
    /\ WinFrame

SetTimer(id) ==
    /\ wpc = "ready"
    /\ timers' = IF alive THEN timers \cup {id} ELSE timers
    /\ wret' = WRet("SetTimer", "void", m_NativeWindow, <<>>)
    /\ UNCHANGED <<wpc, m_NativeWindow, hCreated, alive, show, title, invalid,
                   queue, msg, destroyLog>>
    /\ WinFrame

KillTimer(id) ==
    /\ wpc = "ready"
    /\ timers' = timers \ {id}
    /\ wret' = WRet("KillTimer", "void", m_NativeWindow, <<>>)
    /\ UNCHANGED <<wpc, m_NativeWindow, hCreated, alive, show, title, invalid,
                   queue, msg, destroyLog>>
    /\ WinFrame

\* Redraw() / Invalidate(): the window is repainted now, or marked invalid.
Redraw ==
    /\ wpc = "ready"
    /\ SetPlat(Deliver([Plat EXCEPT !.invalid = alive], "WM_PAINT"))
    /\ wret' = WRet("Redraw", "void", m_NativeWindow, <<>>)
    /\ UNCHANGED <<wpc, m_NativeWindow, hCreated, title, msg>>
    /\ WinFrame

Invalidate ==
    /\ wpc = "ready"
    /\ invalid' = alive
    /\ wret' = WRet("Invalidate", "void", m_NativeWindow, <<>>)
    /\ UNCHANGED <<wpc, m_NativeWindow, hCreated, alive, show, title, timers,
                   queue, msg, destroyLog>>
    /\ WinFrame

\* SendSystemCommand(command): SendMessage(WM_SYSCOMMAND) runs the window
\* procedure before it returns.
SendSystemCommand(command) ==
    /\ wpc = "ready"
    /\ SetPlat(Deliver(Plat, command))
    /\ wret' = WRet("SendSystemCommand", "void", m_NativeWindow, <<>>)
    /\ UNCHANGED <<wpc, m_NativeWindow, hCreated, title, msg>>
    /\ WinFrame

\* The remaining operations hand m_NativeWindow to one platform call that
\* changes nothing this model keeps.
ForwardOps ==
    {"SetSize", "SetPosition", "SetStyle", "SetExStyle", "SetIcon", "SetCursor",
     "SetWindowProcedure", "SetTransparency", "SetLayered", "SetFocus",
     "SetMenu", "SetParent", "SetOwner", "ShowContextMenu", "SetDPIAwareness",
     "SetBackgroundColor", "BringToTop", "SendToBottom", "GetStyle",
     "GetExStyle", "IsVisible", "IsMaximized", "IsMinimized", "IsActive",
     "GetMenu", "GetDPI"}

\* SetParent that keeps what ::SetParent returns (the previous parent, null
\* for a top-level window) as the window's handle.
Forward_KeepsResult(op) ==
    /\ wpc = "ready"
    /\ wret' = WRet(op, "void", m_NativeWindow, <<>>)
    /\ m_NativeWindow' = IF op = "SetParent" THEN NULL ELSE m_NativeWindow
    /\ UNCHANGED <<wpc, hCreated, alive, show, title, timers,
                   invalid, queue, msg, destroyLog>>
    /\ WinFrame

Forward(op) ==
    /\ wpc = "ready"
    /\ wret' = WRet(op, "void", m_NativeWindow, <<>>)
    /\ UNCHANGED <<wpc, m_NativeWindow, hCreated, alive, show, title, timers,
                   invalid, queue, msg, destroyLog>>
    /\ WinFrame

GetHandle == m_NativeWindow

CallGetHandle ==
    /\ wpc = "ready"
    /\ wret' = WRet("GetHandle", "handle", GetHandle, <<>>)
    /\ UNCHANGED <<wpc, m_NativeWindow, hCreated, alive, show, title, timers,
                   invalid, queue, msg, destroyLog>>
    /\ WinFrame

\* RunDefaultMessageLoop(): MSG msg = {}; then the loop.
RunDefaultMessageLoop ==
    /\ wpc = "ready"
    /\ wpc' = "loop"
    /\ msg' = "WM_NULL"
    /\ wret' = WRet("RunDefaultMessageLoop", "void", m_NativeWindow, <<>>)
    /\ UNCHANGED <<m_NativeWindow, hCreated, alive, show, title, timers, invalid,
                   queue, destroyLog>>
    /\ WinFrame

\* What GetMessage(&msg, nullptr, 0, 0) can give in the current state:
\* <<return value, message stored in msg, queue left>>.  Posted messages come
\* first, then a paint request, then a timer; with none it blocks.  On an
\* error it returns -1 and msg keeps its old contents (errors are considered
\* only while the queue is within its bound).
GetMessage ==
    (IF queue # <<>>
     THEN {<<IF Head(queue) = "WM_QUIT" THEN 0 ELSE 1, Head(queue), Tail(queue)>>}
     ELSE IF alive /\ invalid THEN {<<1, "WM_PAINT", queue>>}
     ELSE IF alive /\ timers # {} THEN {<<1, "WM_TIMER", queue>>}
     ELSE {})
    \cup (IF Len(queue) <= MaxQueue THEN {<<-1, msg, queue>>} ELSE {})

\* while (GetMessage(...)) { TranslateMessage(&msg); DispatchMessage(&msg); }
\* One test of the condition and, when it is nonzero, one run of the body.
LoopBody(ps, m) == Deliver(TranslateMessage(ps, m), m)

LoopCalls(r, m) ==
    IF r # 0 THEN <<<<"TranslateMessage", m>>, <<"DispatchMessage", m>>>>
    ELSE <<>>

LoopContinues(r) == r # 0

LoopIteration ==
    /\ wpc = "loop"
    /\ \E g \in GetMessage :
        /\ msg' = g[2]
        /\ IF LoopContinues(g[1])
           THEN SetPlat(LoopBody([Plat EXCEPT !.queue = g[3]], g[2]))
           ELSE SetPlat([Plat EXCEPT !.queue = g[3]])
        /\ wpc' = IF LoopContinues(g[1]) THEN "loop" ELSE "ready"
        /\ wret' = WRet("GetMessage",
                        CASE g[1] = 0 -> "quit" [] g[1] = -1 -> "error"
                          [] OTHER -> "message",
                        m_NativeWindow, LoopCalls(g[1], g[2]))
    /\ UNCHANGED <<m_NativeWindow, hCreated, title>>
    /\ WinFrame

\* The user or the system posts a message to the window.
Post(m) ==
    /\ wpc \in {"ready", "loop"}
    /\ alive
    /\ Len(queue) < MaxQueue
    /\ queue' = Append(queue, m)
    /\ UNCHANGED <<wpc, m_NativeWindow, hCreated, alive, show, title, timers,
                   invalid, msg, destroyLog, wret>>
    /\ WinFrame

InitWindow ==
    /\ wpc = "start"
    /\ m_NativeWindow = NULL
    /\ hCreated = NULL
    /\ alive = FALSE
    /\ show = "hidden"
    /\ title = ""
    /\ timers = {}
    /\ invalid = FALSE
    /\ queue = <<>>
    /\ msg = "WM_NULL"
    /\ destroyLog = <<>>
    /\ wret = WRet("start", "void", NULL, <<>>)

NextWindow ==
    \/ \E h \in HWNDs \cup {NULL}, t \in Titles : Construct(h, t)
    \/ Destroy
    \/ \E c \in ShowCmds : Show(c)
    \/ \E t \in Titles : SetTitle(t)
    \/ GetTitle
    \/ \E id \in TimerIds : SetTimer(id)
    \/ \E id \in TimerIds : KillTimer(id)
    \/ Redraw
    \/ Invalidate
    \/ \E c \in SysCommands : SendSystemCommand(c)
    \/ \E op \in ForwardOps : Forward(op)
    \/ CallGetHandle
    \/ RunDefaultMessageLoop
    \/ LoopIteration
    \/ \E m \in Posted : Post(m)

(***************************************************************************)
(* CopyToClipboard / PasteFromClipboard and the platform clipboard, called *)
(* on a constructed Window.  Each platform call that can fail (GlobalAlloc,*)
(* GlobalLock, SetClipboardData, GetClipboardData) fails or succeeds by    *)
(* choice; OpenClipboard fails while another program has the clipboard.    *)
(***************************************************************************)
NUL == 0
Uninit == -1                       \* a cell of a block nothing has written
Chars == {NUL, 1, 2}               \* wchar_t values
Texts == UNION {[1..n -> Chars] : n \in 0..MaxLen}    \* std::wstring values
NoBlock == <<>>                    \* no CF_UNICODETEXT data on the clipboard

\* text.c_str(): the characters followed by the terminator.
CStr(text) == text \o <<NUL>>

\* The number of cells before the first NUL (wcslen); the whole length when
\* there is none.
RECURSIVE WcsLen(_)
WcsLen(cells) ==
    IF cells = <<>> \/ Head(cells) = NUL THEN 0 ELSE 1 + WcsLen(Tail(cells))

\* std::wstring(pText): the characters before the first NUL.
FromCStr(cells) == SubSeq(cells, 1, WcsLen(cells))

\* The element count handed to GlobalAlloc and to wcscpy_s.
CopySize_NoTerminator(text) == Len(text)

CopySize(text) == Len(text) + 1

\* GlobalAlloc(GMEM_MOVEABLE, n * sizeof(wchar_t)): n cells nobody has written.
GlobalAlloc(n) == [i \in 1..n |-> Uninit]

\* wcscpy_s(dest, n, src): copies src up to and with its first NUL when that
\* fits in n cells; otherwise it stores an empty string in dest (when n > 0).
wcscpy_s(dest, n, src) ==
    IF WcsLen(src) + 1 <= n
    THEN [i \in 1..Len(dest) |-> IF i <= WcsLen(src) + 1 THEN src[i] ELSE dest[i]]
    ELSE [i \in 1..Len(dest) |-> IF i = 1 THEN NUL ELSE dest[i]]

KRet(op, text, opened, stepsOk, before, result, calls, follows, copyOk) ==
    [op |-> op, text |-> text, opened |-> opened, stepsOk |-> stepsOk,
     before |-> before, result |-> result, calls |-> calls,
     follows |-> follows, copyOk |-> copyOk]

\* CopyToClipboard(text) given what each platform call answers: the platform
\* calls made, in order, and the clipboard's text block afterwards.
CopyRun_EarlyReturn(text, openOk, allocOk, lockOk, setOk, data) ==
    IF ~openOk THEN [calls |-> <<"OpenClipboard">>, data |-> data]
    ELSE IF ~allocOk
    THEN [calls |-> <<"OpenClipboard", "EmptyClipboard", "GlobalAlloc">>,
          data |-> NoBlock]
    ELSE IF ~lockOk
    THEN [calls |-> <<"OpenClipboard", "EmptyClipboard", "GlobalAlloc",
                      "GlobalLock", "CloseClipboard">>,
          data |-> NoBlock]
    ELSE [calls |-> <<"OpenClipboard", "EmptyClipboard", "GlobalAlloc",
                      "GlobalLock", "wcscpy_s", "GlobalUnlock",
                      "SetClipboardData", "CloseClipboard">>,
          data |-> IF setOk
                   THEN wcscpy_s(GlobalAlloc(CopySize(text)), CopySize(text),
                                 CStr(text))
                   ELSE NoBlock]

CopyRun(text, openOk, allocOk, lockOk, setOk, data) ==
    IF ~openOk THEN [calls |-> <<"OpenClipboard">>, data |-> data]
    ELSE IF ~allocOk
    THEN [calls |-> <<"OpenClipboard", "EmptyClipboard", "GlobalAlloc",
                      "CloseClipboard">>,
          data |-> NoBlock]
    ELSE IF ~lockOk
    THEN [calls |-> <<"OpenClipboard", "EmptyClipboard", "GlobalAlloc",
                      "GlobalLock", "CloseClipboard">>,
          data |-> NoBlock]
    ELSE [calls |-> <<"OpenClipboard", "EmptyClipboard", "GlobalAlloc",
                      "GlobalLock", "wcscpy_s", "GlobalUnlock",
                      "SetClipboardData", "CloseClipboard">>,
          data |-> IF setOk
                   THEN wcscpy_s(GlobalAlloc(CopySize(text)), CopySize(text),
                                 CStr(text))
                   ELSE NoBlock]

\* PasteFromClipboard(): the calls made and the string returned.
\* GetClipboardData gives null when the clipboard holds no text or it fails.
PasteRun(openOk, getOk, lockOk, data) ==
    IF ~openOk THEN [calls |-> <<"OpenClipboard">>, result |-> <<>>]
    ELSE IF data = NoBlock \/ ~getOk
    THEN [calls |-> <<"OpenClipboard", "GetClipboardData", "CloseClipboard">>,
          result |-> <<>>]
    ELSE IF ~lockOk
    THEN [calls |-> <<"OpenClipboard", "GetClipboardData", "GlobalLock",
                      "CloseClipboard">>,
          result |-> <<>>]
    ELSE [calls |-> <<"OpenClipboard", "GetClipboardData", "GlobalLock",
                      "GlobalUnlock", "CloseClipboard">>,
          result |-> FromCStr(data)]

Count(calls, c) == Cardinality({i \in 1..Len(calls) : calls[i] = c})

\* Who has the clipboard open once the calls were made.
OpenAfter(openOk, calls) ==
    IF openOk /\ Count(calls, "CloseClipboard") = 0 THEN "self" ELSE clipOpen

ClipFrame == UNCHANGED <<classVars, winVars>>

\* OpenClipboard fails while another window has the clipboard open.
CopyToClipboard(text, allocOk, lockOk, setOk) ==
    LET openOk == clipOpen # "other"
        run == CopyRun(text, openOk, allocOk, lockOk, setOk, clipData)
    IN  /\ clipData' = run.data
        /\ clipOpen' = OpenAfter(openOk, run.calls)
        /\ kret' = KRet("CopyToClipboard", text, openOk,
                        allocOk /\ lockOk /\ setOk, clipData, <<>>, run.calls,
                        FALSE, FALSE)
        /\ ClipFrame

PasteFromClipboard(getOk, lockOk) ==
    LET openOk == clipOpen # "other"
        run == PasteRun(openOk, getOk, lockOk, clipData)
    IN  /\ clipOpen' = OpenAfter(openOk, run.calls)
        /\ kret' = KRet("PasteFromClipboard", kret.text, openOk, getOk /\ lockOk,
                        clipData, run.result, run.calls,
                        kret.op = "CopyToClipboard",
                        kret.op = "CopyToClipboard" /\ kret.opened
                            /\ kret.stepsOk)
        /\ UNCHANGED clipData
        /\ ClipFrame

\* Another program opens the clipboard, replaces its contents, closes it.
OtherOpens ==
    /\ clipOpen = "none"
    /\ clipOpen' = "other"
    /\ kret' = KRet("other", <<>>, FALSE, FALSE, NoBlock, <<>>, <<>>, FALSE, FALSE)
    /\ UNCHANGED clipData
    /\ ClipFrame

OtherSets(data) ==
    /\ clipOpen = "other"
    /\ clipData' = data
    /\ kret' = KRet("other", <<>>, FALSE, FALSE, NoBlock, <<>>, <<>>, FALSE, FALSE)
    /\ UNCHANGED clipOpen
    /\ ClipFrame

OtherCloses ==
    /\ clipOpen = "other"
    /\ clipOpen' = "none"
    /\ kret' = KRet("other", <<>>, FALSE, FALSE, NoBlock, <<>>, <<>>, FALSE, FALSE)
    /\ UNCHANGED clipData
    /\ ClipFrame

InitClip ==
    /\ clipOpen = "none"
    /\ clipData = NoBlock
    /\ kret = KRet("start", <<>>, FALSE, FALSE, NoBlock, <<>>, <<>>, FALSE, FALSE)

NextClip ==
    \/ \E text \in Texts, allocOk \in BOOLEAN, lockOk \in BOOLEAN,
          setOk \in BOOLEAN : CopyToClipboard(text, allocOk, lockOk, setOk)
    \/ \E getOk \in BOOLEAN, lockOk \in BOOLEAN : PasteFromClipboard(getOk, lockOk)
    \/ OtherOpens
    \/ \E t \in Texts : OtherSets(IF t = <<>> THEN NoBlock ELSE CStr(FromCStr(t)))
    \/ OtherCloses

Init == InitClass /\ InitWindow /\ InitClip

SpecClass == Init /\ [][NextClass]_vars

SpecWindow == Init /\ [][NextWindow]_vars

SpecClip == Init /\ [][NextClip]_vars

(***************************************************************************)
(* Claims about WindowClass (checked under SpecClass)                      *)
(***************************************************************************)
ReleaseOps == {"~WindowClass", "operator=(&&)", "Unregister"}

\* C1: over any sequence of constructions, moves and destructions each
\* class-name string is freed at most once, and the destructor of an object
\* whose name field is null (a moved-from object) releases nothing: no
\* UnregisterClass call, no free.
C1_FreedAtMostOnce ==
    /\ \A p \in Ptrs : frees[p] <= 1
    /\ (cret.op = "~WindowClass" /\ cret.ptr = NULL) => cret.released = <<>>

\* C5: a release call (Unregister, the destructor, a move assignment onto
\* the object) on a WindowClass that holds no registration of its own leaves
\* the platform's table of registered classes as it was.
C5_UnregisterWithoutRegistration ==
    [][(cret'.op \in ReleaseOps /\ ~regBy[cret'.obj]) => registry' = registry]_vars

\* C6: Register() on a name already registered under the same instance
\* returns false, raises nothing, leaves every field of the descriptor as it
\* was and leaves the table of registered classes as it was.
C6_RegisterCollision ==
    [][(cret'.op = "Register"
          /\ Key(cret'.name, m_NativeClass[cret'.obj].hInstance) \in registry)
        => (/\ cret'.result = "false"
            /\ m_NativeClass' = m_NativeClass
            /\ registry' = registry)]_vars

\* C6 witness: Register() has just failed on an object whose name another
\* live WindowClass had registered under the same instance.
C6_Witness ==
    /\ cret.op = "Register" /\ cret.result = "false"
    /\ cret.name # NoName
    /\ \E other \in Objs \ {cret.obj} :
        /\ life[other] = "live" /\ regBy[other]
        /\ m_NativeClass[other].lpszClassName # NULL
        /\ heapText[m_NativeClass[other].lpszClassName] = cret.name
        /\ m_NativeClass[other].hInstance = m_NativeClass[cret.obj].hInstance
        /\ Key(cret.name, m_NativeClass[other].hInstance) \in registry

\* C10: a string the caller supplied is never freed by this layer: only
\* strings _wcsdup allocated are.
C10_CallerStringNeverFreed ==
    \A p \in CallerPtrs : frees[p] = 0

(***************************************************************************)
(* Claims about Window (checked under SpecWindow)                          *)
(***************************************************************************)
Constructed == wpc \in {"ready", "loop"}

\* C2: from construction until the destructor runs, the stored handle names
\* a platform window that exists, whatever is called and whatever the user
\* does; so the destructor's DestroyWindow is the only destroy of that window.
C2_HandleLiveUntilDestructor ==
    /\ Constructed => (m_NativeWindow # NULL /\ alive)
    /\ wpc = "gone" => destroyLog = <<<<"~Window", TRUE>>>>

\* C8: while the Window exists, GetHandle gives the handle CreateWindowEx
\* returned to the constructor: no later operation writes the stored handle.
C8_GetHandleUnchanged ==
    /\ Constructed => (GetHandle = hCreated /\ hCreated \in HWNDs)
    /\ wret.op = "GetHandle" => wret.handle = hCreated

\* C8 witness: GetHandle was called after the window was shown, sized and
\* then closed by the user, and it gave the creation handle.
C8_Witness ==
    /\ wpc = "ready" /\ wret.op = "GetHandle" /\ wret.handle = hCreated
    /\ hCreated \in HWNDs
    /\ show = "max" /\ ~alive /\ destroyLog # <<>>

\* C9: an iteration of RunDefaultMessageLoop translates and then dispatches
\* the message it retrieved and goes on; on the quit signal it returns
\* without translating or dispatching; on any other retrieval outcome (an
\* error) it does not go on looping.
C9_LoopContract ==
    wret.op = "GetMessage" =>
        /\ wret.result = "message" =>
              (/\ wret.calls = <<<<"TranslateMessage", msg>>,
                                 <<"DispatchMessage", msg>>>>
               /\ wpc = "loop")
        /\ wret.result = "quit" => (wret.calls = <<>> /\ wpc = "ready")
        /\ wret.result = "error" => (wret.calls = <<>> /\ wpc = "ready")

(***************************************************************************)
(* Claims about the clipboard operations (checked under SpecClip)          *)
(***************************************************************************)
ClipOps == {"CopyToClipboard", "PasteFromClipboard"}

\* C3: a copy or paste that opened the clipboard closes it exactly once, as
\* its last platform call, on every path; one whose open failed makes no
\* close call; after either returns this window does not hold the clipboard.
C3_ClipboardClosed ==
    /\ clipOpen # "self"
    /\ kret.op \in ClipOps =>
          /\ Count(kret.calls, "CloseClipboard") = (IF kret.opened THEN 1 ELSE 0)
          /\ kret.opened => kret.calls[Len(kret.calls)] = "CloseClipboard"

\* C3 witness: CopyToClipboard opened the clipboard, GlobalAlloc failed, and
\* the clipboard was closed once.
C3_Witness ==
    /\ kret.op = "CopyToClipboard" /\ kret.opened
    /\ "GlobalLock" \notin {kret.calls[i] : i \in 1..Len(kret.calls)}
    /\ Count(kret.calls, "CloseClipboard") = 1
    /\ clipOpen = "none"

\* C4: a CopyToClipboard whose allocation or lock fails after the clipboard
\* was opened is a no-op: the clipboard holds what it held before the call.
C4_FailedCopyIsNoOp ==
    (kret.op = "CopyToClipboard" /\ kret.opened
        /\ "wcscpy_s" \notin {kret.calls[i] : i \in 1..Len(kret.calls)})
    => clipData = kret.before

\* A paste directly after a copy of kret.text, every platform step of both
\* having succeeded.
RoundTrip ==
    /\ kret.op = "PasteFromClipboard" /\ kret.follows /\ kret.copyOk
    /\ kret.opened /\ kret.stepsOk

HasNul(text) == \E i \in 1..Len(text) : text[i] = NUL

\* C7 as stated: CopyToClipboard(text) directly followed by
\* PasteFromClipboard() returns a string equal to text, for every text, the
\* empty one included.
C7_RoundTripAnyText ==
    RoundTrip => kret.result = kret.text

\* C7 amended: when every platform step of both calls succeeds, the paste
\* returns text cut at its first NUL character: text itself when it holds no
\* NUL (the empty string included).
C7_RoundTripUpToNul ==
    RoundTrip =>
        /\ kret.result = FromCStr(kret.text)
        /\ ~HasNul(kret.text) => kret.result = kret.text

\* C7 witness: a text of MaxLen characters without NUL came back whole.
C7_Witness ==
    /\ RoundTrip /\ Len(kret.text) = MaxLen /\ ~HasNul(kret.text)
    /\ kret.result = kret.text

====
